---------------------------- MODULE Spec2Model ----------------------------
(***************************************************************************)
(* Model of the creative pipeline of ai-text-to-3d-pipeline:               *)
(*   app/core/pipeline/generator.py   CreativePipeline                     *)
(*   app/core/memory/memory_manager.py MemoryManager                       *)
(*   app/core/llm/ollama_llama.py     OllamaLlama                          *)
(*                                                                         *)
(* Text is a sequence of one-character strings, so that splitting,         *)
(* lower-casing, joining and length tests are computed as Python computes  *)
(* them.  None is the tuple <<"None">>; a local variable that has not been *)
(* assigned yet holds Unbound.  Exceptions are strings naming the Python   *)
(* exception class.  Only subclasses of Exception are modelled (process    *)
(* catches `Exception`; KeyboardInterrupt and SystemExit are outside the   *)
(* model).                                                                 *)
(***************************************************************************)
EXTENDS Integers, Sequences, FiniteSets, TLC

VARIABLES
    pc,                 \* pc[s]: position of session s inside process()
    loc,                \* loc[s]: the local variables of the process() call of s
    result,             \* result[s]: what the last process() call of s returned
    log,                \* log[s]: external operations of the current call, in order
    request,            \* request[s]: where the latest outbound request of s went
    pre,                \* pre[s]: ledger and session cache when the call started
    ledger,             \* rows of table `creations`, in insertion order
    short_term_memory,  \* MemoryManager.short_term_memory
    written,            \* written[s]: artifact files the current call has written
    last,               \* the result most recently returned by process()
    clock,              \* the wall clock that datetime.now() reads
    ncalls,             \* number of process() calls started
    answer              \* what the caller's latest direct call of a helper returned

vars == <<pc, loc, result, log, request, pre, ledger, short_term_memory, written,
          last, clock, ncalls, answer>>

---------------------------------------------------------------------------
(* Bounds and input sets                                                   *)

MaxCalls == 2

Sessions == {"s1", "s2"}

None == <<"None">>
Unbound == <<"Unbound">>
NoResult == [raised |-> "nothing returned yet"]
NoExc == "NoExc"
NoRequest == "NoRequest"
NoAnswer == [fn |-> "none"]

\* The prompts the caller submits
PromptOwl == <<"B", "l", "u", "e", " ", "O", "w", "l">>
Prompts == {PromptOwl}

\* The prompt a second user submits
PromptFox == <<"R", "e", "d", " ", "F", "o", "x">>

UserIds == {"super-user"}

\* The text the backend answers with under status 200
LlmPaleOwl == <<"A", " ", "P", "a", "l", "e", " ", "O", "w", "l">>
LlmTexts == {LlmPaleOwl}

PngBytes == <<"png-bytes">>
GlbBytes == <<"glb-bytes">>
GlbBytes2 == <<"glb-bytes-fallback">>
Mp4Bytes == <<"mp4-bytes">>
EmptyBytes == <<>>

---------------------------------------------------------------------------
(* Text helpers (Python str operations)                                    *)

UpperCase == <<"A", "B", "C", "D", "E", "F", "G", "H", "I", "J", "K", "L", "M",
               "N", "O", "P", "Q", "R", "S", "T", "U", "V", "W", "X", "Y", "Z">>
LowerCase == <<"a", "b", "c", "d", "e", "f", "g", "h", "i", "j", "k", "l", "m",
               "n", "o", "p", "q", "r", "s", "t", "u", "v", "w", "x", "y", "z">>

\* str.lower() on one character
LowerChar(c) ==
    IF \E i \in 1..Len(UpperCase) : UpperCase[i] = c
    THEN LowerCase[CHOOSE i \in 1..Len(UpperCase) : UpperCase[i] = c]
    ELSE c

\* str.lower()
Lower(s) == [i \in 1..Len(s) |-> LowerChar(s[i])]

\* str.replace(',', ' ')
ReplaceComma(s) == [i \in 1..Len(s) |-> IF s[i] = "," THEN " " ELSE s[i]]

\* str.split(): the maximal runs of non-blank characters, in order
Split(s) ==
    LET starts == {i \in 1..Len(s) : s[i] # " " /\ (i = 1 \/ s[i - 1] = " ")}
        EndOf(i) == CHOOSE j \in i..Len(s) :
                        /\ \A k \in i..j : s[k] # " "
                        /\ (j = Len(s) \/ s[j + 1] = " ")
        StartNo(n) == CHOOSE i \in starts :
                          Cardinality({k \in starts : k < i}) = n - 1
    IN [n \in 1..Cardinality(starts) |-> SubSeq(s, StartNo(n), EndOf(StartNo(n)))]

RECURSIVE Join(_, _)
\* sep.join(parts)
Join(sep, parts) ==
    IF parts = <<>> THEN <<>>
    ELSE IF Len(parts) = 1 THEN parts[1]
    ELSE parts[1] \o sep \o Join(sep, Tail(parts))

RECURSIVE Distinct(_, _)
\* the elements of a list without repetition, in order of first occurrence
Distinct(xs, seen) ==
    IF xs = <<>> THEN <<>>
    ELSE IF Head(xs) \in seen THEN Distinct(Tail(xs), seen)
    ELSE <<Head(xs)>> \o Distinct(Tail(xs), seen \cup {Head(xs)})

Reverse(xs) == [i \in 1..Len(xs) |-> xs[Len(xs) + 1 - i]]

Prefix(xs, n) == SubSeq(xs, 1, IF Len(xs) < n THEN Len(xs) ELSE n)

\* Python truthiness of None, bytes, str and path values
Truthy(v) == v # None /\ v # <<>>

---------------------------------------------------------------------------
(* OllamaLlama (core/llm/ollama_llama.py)                                  *)

ContainerUrl == "http://host.docker.internal:11434/api/generate"
LocalUrl == "http://localhost:11434/api/generate"

art_styles ==
    << <<"c", "i", "n", "e", "m", "a", "t", "i", "c">>,
       <<"f", "a", "n", "t", "a", "s", "y", " ", "a", "r", "t">>,
       <<"p", "h", "o", "t", "o", "r", "e", "a", "l", "i", "s", "t", "i", "c">>,
       <<"d", "i", "g", "i", "t", "a", "l", " ", "p", "a", "i", "n", "t", "i", "n", "g">> >>
lighting ==
    << <<"d", "r", "a", "m", "a", "t", "i", "c", " ", "l", "i", "g", "h", "t", "i", "n", "g">>,
       <<"g", "o", "l", "d", "e", "n", " ", "h", "o", "u", "r", " ", "s", "u", "n", "l", "i", "g", "h", "t">>,
       <<"s", "o", "f", "t", " ", "a", "m", "b", "i", "e", "n", "t", " ", "l", "i", "g", "h", "t">>,
       <<"m", "o", "o", "d", "y", " ", "s", "h", "a", "d", "o", "w", "s">> >>
details ==
    << <<"i", "n", "t", "r", "i", "c", "a", "t", "e", " ", "d", "e", "t", "a", "i", "l", "s">>,
       <<"h", "i", "g", "h", " ", "r", "e", "s", "o", "l", "u", "t", "i", "o", "n">>,
       <<"t", "e", "x", "t", "u", "r", "e", "d", " ", "s", "u", "r", "f", "a", "c", "e", "s">>,
       <<"v", "i", "b", "r", "a", "n", "t", " ", "c", "o", "l", "o", "r", "s">> >>
CraftedText == <<"m", "a", "s", "t", "e", "r", "f", "u", "l", "l", "y", " ", "c", "r", "a", "f", "t", "e", "d">>
ResolutionText == <<"8", "k", " ", "r", "e", "s", "o", "l", "u", "t", "i", "o", "n">>
CommaSpace == <<",", " ">>

\* What random.choice returns for the three lists: one index into each.
\* AllDraws is every outcome; RandomDraws are the outcomes the pipeline
\* specification explores.
AllDraws == (1..Len(art_styles)) \X (1..Len(lighting)) \X (1..Len(details))
RandomDraws == {<<2, 4, 3>>}

\* A local enhancement that puts the drawn descriptors before the prompt
create_enhanced_prompt_fallback_prompt_last(basic_prompt, draw) ==
    Join(CommaSpace, <<art_styles[draw[1]], lighting[draw[2]], details[draw[3]],
                       basic_prompt, CraftedText, ResolutionText>>)

\* _create_enhanced_prompt_fallback: the f-string of line 98
create_enhanced_prompt_fallback(basic_prompt, draw) ==
    Join(CommaSpace, <<basic_prompt, art_styles[draw[1]], lighting[draw[2]],
                       details[draw[3]], CraftedText, ResolutionText>>)

\* What requests.post does: it raises (backend unreachable), or returns a
\* response with a status code and, under 200, the JSON field "response".
LlmReplies ==
    {[kind |-> "raise", status_code |-> 0, response |-> None]}
    \cup {[kind |-> "http", status_code |-> 200, response |-> t] : t \in LlmTexts}
    \cup {[kind |-> "http", status_code |-> 500, response |-> None]}

\* The body shared by enhance_prompt and enhance_prompt_local from the POST
\* on: an outcome is [exc, value]; exc = NoExc when the method returns value.
\* requests.post is not inside any try block, so what it raises leaves the
\* method.
EnhanceBody(user_prompt, reply, draw) ==
    IF reply.kind = "raise"
    THEN [exc |-> "ConnectionError", value |-> None]
    ELSE IF reply.status_code = 200
         THEN [exc |-> NoExc, value |-> reply.response]
         ELSE [exc |-> NoExc,
               value |-> create_enhanced_prompt_fallback(user_prompt, draw)]

enhance_prompt(user_prompt, reply, draw) ==
    [url |-> ContainerUrl] @@ EnhanceBody(user_prompt, reply, draw)

\* A local variant that posts to the container endpoint
enhance_prompt_local_on_container_url(user_prompt, reply, draw) ==
    [url |-> ContainerUrl] @@ EnhanceBody(user_prompt, reply, draw)

enhance_prompt_local(user_prompt, reply, draw) ==
    [url |-> LocalUrl] @@ EnhanceBody(user_prompt, reply, draw)

---------------------------------------------------------------------------
(* CreativePipeline helpers (core/pipeline/generator.py)                   *)

\* The host as is_running_in_docker sees it: whether /.dockerenv exists,
\* whether /proc/1/cgroup is a file, and which of the two markers its
\* content holds.
HostEnvs ==
    [dockerenv : BOOLEAN, cgroup_isfile : BOOLEAN,
     cgroup : SUBSET {"docker", "containerd"}]

\* f.read() on a file object: the first call returns the content, a second
\* call on the same object returns the empty string.
FileRead(content, nth) == IF nth = 1 THEN content ELSE {}

is_running_in_docker(env) ==
    IF env.dockerenv THEN TRUE
    ELSE IF env.cgroup_isfile
         THEN \/ "docker" \in FileRead(env.cgroup, 1)
              \/ "containerd" \in FileRead(env.cgroup, 2)
         ELSE FALSE

stopwords ==
    { <<"a">>, <<"t", "h", "e">>, <<"a", "n", "d">>, <<"o", "f">>,
      <<"f", "o", "r">>, <<"w", "i", "t", "h">>, <<"i", "n">>, <<"o", "n">>,
      <<"a", "t">> }

MinTagLen == 3
MaxTags == 10

\* lines 274-281: the qualifying words, in order, repetitions included
TagWords(prompt) ==
    SelectSeq(Split(ReplaceComma(Lower(prompt))),
              LAMBDA w : Len(w) > MinTagLen /\ w \notin stopwords)

\* list(set(tags)) enumerates the set in the order of the string hashes,
\* which Python randomises per process.  SetOrders are the enumeration
\* orders explored: first occurrence, and its reverse.
SetOrders == {"forward", "reverse"}

ListOfSet(tags, order) ==
    IF order = "forward" THEN Distinct(tags, {}) ELSE Reverse(Distinct(tags, {}))

\* A tagger that keeps the repetitions: tags[:10] of the list, no set()
extract_tags_no_dedup(prompt, order) ==
    Prefix(IF order = "forward" THEN TagWords(prompt) ELSE Reverse(TagWords(prompt)),
           MaxTags)

\* _extract_tags: list(set(tags))[:10]
extract_tags(prompt, order) == Prefix(ListOfSet(TagWords(prompt), order), MaxTags)

\* The texts that enhance_prompt and enhance_prompt_local can return
EnhancedTexts ==
    {EnhanceBody(p, r, d).value :
        p \in Prompts \cup {PromptFox},
        r \in {x \in LlmReplies : x.kind # "raise"}, d \in RandomDraws}

\* self._extract_tags(enhanced_prompt), line 118: _extract_tags on each text
\* process can hand to it, worked out once
TagsOf == [k \in EnhancedTexts \X SetOrders |-> extract_tags(k[1], k[2])] @@ <<>>

\* uuid.uuid4().hex.  A call of process() draws at most one value at each of
\* its three places (lines 202, 240, 104), so the call and the place name the
\* value, and two draws never give the same value.
Uuid(call, place) == <<"uuid", call, place>>

OutputDir == "outputs"

\* os.path.join(self.output_dir, sub, f"{id}{ext}")
PathJoin(sub, id, ext) == <<OutputDir, sub, id, ext>>

\* A handler that catches OSError only: any other exception leaves process.
OuterExceptOSErrorOnly(e, user_prompt) ==
    IF e = "OSError"
    THEN [error |-> e, stage |-> "pipeline_process", original_prompt |-> user_prompt]
    ELSE [raised |-> e]

\* The except clause of process (lines 157-163): the failure shape.
OuterExcept(e, user_prompt) ==
    [error |-> e, stage |-> "pipeline_process", original_prompt |-> user_prompt]

\* The dictionary returned at lines 145-155: the success shape.
SuccessResult(l) ==
    [creation_id |-> l.creation_id,
     original_prompt |-> l.user_prompt,
     enhanced_prompt |-> l.enhanced_prompt,
     image_path |-> l.image_path,
     model_path |-> l.model_path,
     tags |-> l.tags]

---------------------------------------------------------------------------
(* MemoryManager (core/memory/memory_manager.py)                           *)

CacheKeys == <<"last_prompt", "last_enhanced_prompt", "last_image_path",
               "last_model_path">>

\* A save_to_short_term that refuses None values
save_to_short_term_rejects_none(stm, key, value) ==
    IF value = None
    THEN [exc |-> "ValueError", stm |-> stm]
    ELSE [exc |-> NoExc,
          stm |-> [k \in DOMAIN stm \cup {key} |-> IF k = key THEN value ELSE stm[k]]]

\* A save_to_short_term that keeps the stored value when handed None
save_to_short_term_skips_none(stm, key, value) ==
    [exc |-> NoExc,
     stm |-> IF value = None /\ key \in DOMAIN stm
             THEN stm
             ELSE [k \in DOMAIN stm \cup {key} |-> IF k = key THEN value ELSE stm[k]]]

\* save_to_short_term: self.short_term_memory[key] = value.  The outcome is
\* [exc, stm]; a dict assignment does not raise.
save_to_short_term(stm, key, value) ==
    [exc |-> NoExc,
     stm |-> [k \in DOMAIN stm \cup {key} |-> IF k = key THEN value ELSE stm[k]]]

\* get_from_short_term: dict.get(key), None when the key is absent
get_from_short_term(stm, key) == IF key \in DOMAIN stm THEN stm[key] ELSE None

\* AUTOINCREMENT: one more than the largest id ever used; rows are never
\* deleted, so one more than the largest id in the table.
NextRowId(rows) ==
    IF rows = <<>> THEN 1
    ELSE 1 + CHOOSE m \in {rows[i].id : i \in 1..Len(rows)} :
                 \A i \in 1..Len(rows) : rows[i].id <= m

SaveCreationArity == 6

\* The row of lines 102-109: tags joined with commas, the timestamp, no
\* video_path column in the INSERT (it stays NULL).
NewRow(rows, args, now) ==
    LET tag_list == args[5]
    IN [id |-> NextRowId(rows),
        creation_date |-> now,
        prompt |-> args[1],
        enhanced_prompt |-> args[2],
        image_path |-> args[3],
        model_path |-> args[4],
        video_path |-> None,
        tags |-> IF tag_list # <<>> THEN Join(<<",">>, tag_list) ELSE <<>>,
        user_id |-> args[6]]

\* A save_creation that does not insert a prompt the table already holds and
\* returns the id of the row it finds
save_creation_dedup(rows, args, insert_ok, now) ==
    IF Len(args) > SaveCreationArity
    THEN [exc |-> "TypeError", rows |-> rows, creation_id |-> 0]
    ELSE IF ~insert_ok
    THEN [exc |-> NoExc, rows |-> rows, creation_id |-> -1]
    ELSE IF \E i \in 1..Len(rows) : rows[i].prompt = args[1]
    THEN [exc |-> NoExc, rows |-> rows,
          creation_id |-> rows[CHOOSE i \in 1..Len(rows) : rows[i].prompt = args[1]].id]
    ELSE [exc |-> NoExc, rows |-> Append(rows, NewRow(rows, args, now)),
          creation_id |-> NextRowId(rows)]

\* save_creation, called with the positional arguments `args` (self not
\* counted).  The signature takes at most six: prompt, enhanced_prompt,
\* image_path, model_path, tags, user_id; a seventh positional argument is a
\* TypeError raised by the call itself, before the body and its try block.
\* Inside the body every exception is caught and -1 is returned (lines
\* 117-119).  insert_ok says whether the INSERT and the commit went through;
\* now is datetime.now().  The outcome is [exc, rows, creation_id].
save_creation(rows, args, insert_ok, now) ==
    IF Len(args) > SaveCreationArity
    THEN [exc |-> "TypeError", rows |-> rows, creation_id |-> 0]
    ELSE IF insert_ok
    THEN [exc |-> NoExc, rows |-> Append(rows, NewRow(rows, args, now)),
          creation_id |-> NextRowId(rows)]
    ELSE [exc |-> NoExc, rows |-> rows, creation_id |-> -1]

RECURSIVE Like(_, _)
\* SQLite `text LIKE pattern`: % stands for any run of characters, _ for any
\* one character, and letters A-Z match without regard to case.
Like(pattern, text) ==
    IF pattern = <<>> THEN text = <<>>
    ELSE IF Head(pattern) = "%"
    THEN \E k \in 0..Len(text) : Like(Tail(pattern), SubSeq(text, k + 1, Len(text)))
    ELSE /\ text # <<>>
         /\ Head(pattern) = "_" \/ LowerChar(Head(pattern)) = LowerChar(Head(text))
         /\ Like(Tail(pattern), Tail(text))

\* The user_id parameter left at its default, None
NoUserId == "None"

\* `if user_id:` (lines 143, 175, 210)
UserGiven(user_id) == user_id \notin {NoUserId, ""}

\* The WHERE clause of lines 137-145 on one row
SearchMatches(row, search_term, user_id) ==
    LET pattern == <<"%">> \o search_term \o <<"%">>
    IN /\ \/ Like(pattern, row.prompt)
          \/ Like(pattern, row.enhanced_prompt)
          \/ Like(pattern, row.tags)
       /\ UserGiven(user_id) => row.user_id = user_id

\* search_creations, lines 121-154: the rows, in table order, that match.  query_ok says whether the
\* connection and the SELECT went through; every exception gives [].
search_creations(rows, search_term, user_id, query_ok) ==
    IF query_ok
    THEN SelectSeq(rows, LAMBDA row : SearchMatches(row, search_term, user_id))
    ELSE <<>>

\* ORDER BY creation_date DESC leaves the order of rows with equal
\* creation_date open; TieOrders are the two orders explored.
TieOrders == {"rowid_asc", "rowid_desc"}

\* A variant that sorts oldest first
ComesBeforeAscending(a, b, tie) ==
    \/ a.creation_date < b.creation_date
    \/ /\ a.creation_date = b.creation_date
       /\ IF tie = "rowid_asc" THEN a.id < b.id ELSE a.id > b.id

\* row a comes before row b in the output of ORDER BY creation_date DESC
ComesBefore(a, b, tie) ==
    \/ a.creation_date > b.creation_date
    \/ /\ a.creation_date = b.creation_date
       /\ IF tie = "rowid_asc" THEN a.id < b.id ELSE a.id > b.id

OrderByDateDesc(rows, tie) ==
    LET Rank(i) == 1 + Cardinality({j \in 1..Len(rows) :
                                       ComesBefore(rows[j], rows[i], tie)})
    IN [n \in 1..Len(rows) |-> rows[CHOOSE i \in 1..Len(rows) : Rank(i) = n]]

\* LIMIT n: the first n rows; a negative n is no limit (SQLite)
Limit(rows, n) == IF n < 0 THEN rows ELSE Prefix(rows, n)

\* The SELECT of lines 172-182 and of lines 207-217
SelectRecent(rows, limit, user_id, tie) ==
    LET mine == SelectSeq(rows, LAMBDA row :
                    UserGiven(user_id) => row.user_id = user_id)
    IN Limit(OrderByDateDesc(mine, tie), limit)

\* get_recent_creations, lines 156-189
get_recent_creations(rows, limit, user_id, tie, query_ok) ==
    IF query_ok THEN SelectRecent(rows, limit, user_id, tie) ELSE <<>>

\* get_all_creations, lines 191-224: the same query
get_all_creations(rows, limit, user_id, tie, query_ok) ==
    IF query_ok THEN SelectRecent(rows, limit, user_id, tie) ELSE <<>>

---------------------------------------------------------------------------
(* Replies of the remote capabilities and of the operating system          *)

\* stub.schema / stub.call of the Text-to-Image app: one of them raises, or
\* the response carries no image data, or it carries image bytes.
ImageReplies ==
    { [kind |-> "raise", result |-> None],
      [kind |-> "response", result |-> None],
      [kind |-> "response", result |-> PngBytes] }

TextToImageApp == "text_to_image_app_id"
ImageTo3dApp == "image_to_3d_app_id"

Absent == <<"Absent">>

\* stub.call of the Image-to-3D app, primary attempt: it raises, or returns an
\* empty response, or a response with the field generated_object and, absent
\* (Absent), empty or filled, the field video_object.
ModelReplies ==
    { [kind |-> "raise", generated_object |-> None, video_object |-> Absent],
      [kind |-> "empty", generated_object |-> None, video_object |-> Absent],
      [kind |-> "response", generated_object |-> None, video_object |-> Absent] }
    \cup [kind : {"response"}, generated_object : {GlbBytes},
          video_object : {Absent, EmptyBytes, Mp4Bytes}]

\* stub.call of the Image-to-3D app, fallback attempt
FallbackReplies ==
    { [kind |-> "raise", generated_object |-> None],
      [kind |-> "empty", generated_object |-> None],
      [kind |-> "response", generated_object |-> None],
      [kind |-> "response", generated_object |-> GlbBytes2] }

\* How far the clock has moved when datetime.now() reads it again
ClockTicks == {1}

---------------------------------------------------------------------------
(* process(): state of one call                                            *)

\* Locals of process() on entry, after lines 63-68.  `call` numbers the call;
\* `work` is the dictionary `result` of lines 63-68; `resp` holds a value
\* between its computation and its use: the value of the condition of line 72
\* until the branch is taken, and a response between the call of a capability
\* and the write of its artifact.
EntryLocals(call, user_prompt, user_id) ==
    [call |-> call,
     user_prompt |-> user_prompt,
     user_id |-> user_id,
     enhanced_prompt |-> Unbound,
     image_data |-> Unbound,
     image_path |-> Unbound,
     model_data |-> Unbound,
     model_path |-> Unbound,
     video_path |-> Unbound,
     tags |-> Unbound,
     creation_id |-> Unbound,
     work |-> [stages_completed |-> <<>>, errors |-> <<>>,
               image_path |-> None, model_path |-> None],
     resp |-> None]

\* The frame of a call that has returned
NoLocals == [user_prompt |-> None]

AddError(l, msg) ==
    [l EXCEPT !.work.errors = Append(@, msg)]

AddStage(l, stage) ==
    [l EXCEPT !.work.stages_completed = Append(@, stage)]

\* A gate that starts the 3D stage whether or not there is an image
ImageGateOpen(l) ==
    [pc |-> "model_call", loc |-> [l EXCEPT !.video_path = None]]

\* Lines 89 and 112-114: with no image the 3D stage is skipped; with an image
\* the 3D stage starts with video_path = None (line 93).  Gives the next
\* position and the locals.
ImageGate(l) ==
    IF Truthy(l.image_path)
    THEN [pc |-> "model_call", loc |-> [l EXCEPT !.video_path = None]]
    ELSE [pc |-> "persist",
          loc |-> AddError([l EXCEPT !.model_path = None],
                           "Skipped 3D model generation due to missing image")]

\* A handler of the image stage that goes on to the 3D stage without an image
ImageExceptGoesOn(l, e) ==
    [pc |-> "model_call",
     loc |-> AddError([l EXCEPT !.image_path = None, !.resp = None,
                                !.video_path = None],
                      "Image generation failed: " \o e)]

\* Lines 83-86: the handler of the image stage
ImageExcept(l, e) ==
    ImageGate(AddError([l EXCEPT !.image_path = None, !.resp = None],
                       "Image generation failed: " \o e))

\* A handler that also gives up the image of the run
ModelExceptRollback(l, e) ==
    [pc |-> "fallback_call",
     loc |-> AddError([l EXCEPT !.resp = None, !.image_path = None],
                      "3D model generation failed: " \o e)]

\* A handler that issues the primary 3D call again
ModelExceptRetry(l, e) ==
    [pc |-> "model_call",
     loc |-> AddError([l EXCEPT !.resp = None],
                      "3D model generation failed: " \o e)]

\* Lines 97-102: the handler of the primary 3D attempt, up to the fallback call
ModelExcept(l, e) ==
    [pc |-> "fallback_call",
     loc |-> AddError([l EXCEPT !.resp = None],
                      "3D model generation failed: " \o e)]

---------------------------------------------------------------------------
(* process(): the steps                                                    *)

Idle(s) == pc[s] \in {"idle", "done"}

Logged(s, op, outcome) == log' = [log EXCEPT ![s] = Append(@, <<op, outcome>>)]

Sent(s, target) == request' = [request EXCEPT ![s] = target]

Wrote(s, path, data) ==
    written' = [written EXCEPT ![s] = @ \cup {[path |-> path, data |-> data]}]

\* process() hands `res` back to its caller; the frame is dropped.
Return(s, res) ==
    /\ result' = [result EXCEPT ![s] = res]
    /\ last' = res
    /\ pc' = [pc EXCEPT ![s] = "done"]
    /\ loc' = [loc EXCEPT ![s] = NoLocals]
    /\ UNCHANGED answer

\* An exception reaches the try block of lines 62-163.
Raise(s, e) == Return(s, OuterExcept(e, loc[s].user_prompt))

Goto(s, next) ==
    /\ pc' = [pc EXCEPT ![s] = next.pc]
    /\ loc' = [loc EXCEPT ![s] = next.loc]
    /\ UNCHANGED <<result, last, answer>>

\* The caller enters process(user_prompt, user_id): lines 51-68.
Call(s, user_prompt, user_id) ==
    /\ Idle(s)
    /\ ncalls < MaxCalls
    /\ ncalls' = ncalls + 1
    /\ pc' = [pc EXCEPT ![s] = "detect"]
    /\ loc' = [loc EXCEPT ![s] = EntryLocals(ncalls + 1, user_prompt, user_id)]
    /\ result' = [result EXCEPT ![s] = NoResult]
    /\ log' = [log EXCEPT ![s] = <<>>]
    /\ request' = [request EXCEPT ![s] = NoRequest]
    /\ written' = [written EXCEPT ![s] = {}]
    /\ pre' = [pre EXCEPT ![s] = [ledger |-> ledger, stm |-> short_term_memory,
                                  last |-> last]]
    /\ answer' = NoAnswer
    /\ UNCHANGED <<ledger, short_term_memory, last, clock>>

\* Step 1, line 72: the condition self.is_running_in_docker() is evaluated on
\* the host as it is now; its value is held in `resp` until the branch is
\* taken.
Detect(s) ==
    /\ pc[s] = "detect"
    /\ \E env \in HostEnvs :
         Goto(s, [pc |-> "enhance",
                  loc |-> [loc[s] EXCEPT !.resp = is_running_in_docker(env)]])
    /\ UNCHANGED <<log, request, pre, ledger, short_term_memory, written, clock,
                   ncalls>>

\* Step 1, lines 72-78: the branch on the detection and the one enhancement
\* call.
Enhance(s) ==
    /\ pc[s] = "enhance"
    /\ \E reply \in LlmReplies, draw \in RandomDraws :
         LET l == loc[s]
             out == IF l.resp
                    THEN enhance_prompt(l.user_prompt, reply, draw)
                    ELSE enhance_prompt_local(l.user_prompt, reply, draw)
         IN IF out.exc # NoExc
            THEN /\ Logged(s, "enhance", "raise")
                 /\ Sent(s, out.url)
                 /\ Raise(s, out.exc)
            ELSE /\ Logged(s, "enhance", "ok")
                 /\ Sent(s, out.url)
                 /\ Goto(s, [pc |-> "image_call",
                             loc |-> [l EXCEPT !.enhanced_prompt = out.value,
                                               !.image_data = None,
                                               !.resp = None]])
    /\ UNCHANGED <<pre, ledger, short_term_memory, written, clock, ncalls>>

\* Step 2, _generate_image lines 176-199: schema, call, and the test of the
\* response.
ImageCall(s) ==
    /\ pc[s] = "image_call"
    /\ Sent(s, TextToImageApp)
    /\ \E reply \in ImageReplies :
         LET l == loc[s]
         IN IF reply.kind = "raise"
            THEN /\ Logged(s, "image_call", "raise")
                 /\ Goto(s, ImageExcept(l, "RemoteServiceError"))
            ELSE IF ~Truthy(reply.result)
            THEN /\ Logged(s, "image_call", "no_data")
                 /\ Goto(s, ImageExcept(l, "No image data in response"))
            ELSE /\ Logged(s, "image_call", "ok")
                 /\ Goto(s, [pc |-> "image_write",
                             loc |-> [l EXCEPT !.resp = reply.result]])
    /\ UNCHANGED <<pre, ledger, short_term_memory, written, clock, ncalls>>

\* _generate_image lines 201-210 and process lines 80-82: the image file.
ImageWrite(s) ==
    /\ pc[s] = "image_write"
    /\ \E ok \in BOOLEAN :
         LET l == loc[s]
             image_path == PathJoin("images", Uuid(l.call, "image"), ".png")
         IN IF ok
            THEN /\ Logged(s, "image_write", "ok")
                 /\ Wrote(s, image_path, l.resp)
                 /\ Goto(s, ImageGate(AddStage(
                        [l EXCEPT !.image_data = l.resp,
                                  !.image_path = image_path,
                                  !.work.image_path = image_path,
                                  !.resp = None],
                        "image_generation")))
            ELSE /\ Logged(s, "image_write", "raise")
                 /\ UNCHANGED written
                 /\ Goto(s, ImageExcept(l, "OSError"))
    /\ UNCHANGED <<request, pre, ledger, short_term_memory, clock, ncalls>>

\* Step 3, _generate_3d_model lines 217-237: the primary 3D call and the
\* tests of its response.
ModelCall(s) ==
    /\ pc[s] = "model_call"
    /\ Sent(s, ImageTo3dApp)
    /\ \E reply \in ModelReplies :
         LET l == loc[s]
         IN IF reply.kind = "raise"
            THEN /\ Logged(s, "model_call", "raise")
                 /\ Goto(s, ModelExcept(l, "RemoteServiceError"))
            ELSE IF reply.kind = "empty"
            THEN /\ Logged(s, "model_call", "empty")
                 /\ Goto(s, ModelExcept(l, "Empty response from Image-to-3D service"))
            ELSE IF ~Truthy(reply.generated_object)
            THEN /\ Logged(s, "model_call", "no_data")
                 /\ Goto(s, ModelExcept(l, "No model data in response"))
            ELSE /\ Logged(s, "model_call",
                           IF reply.video_object = Absent THEN "model"
                           ELSE IF Truthy(reply.video_object) THEN "model+video"
                           ELSE "model+empty_video")
                 /\ Goto(s, [pc |-> "model_write", loc |-> [l EXCEPT !.resp = reply]])
    /\ UNCHANGED <<pre, ledger, short_term_memory, written, clock, ncalls>>

\* A return of _generate_3d_model after which the fallback is issued all the same
ModelReturnThenFallback(l, model_data, model_path, video_path) ==
    [pc |-> "fallback_call",
     loc |-> AddStage([l EXCEPT !.model_data = model_data,
                                !.model_path = model_path,
                                !.video_path = video_path,
                                !.work.model_path = model_path,
                                !.resp = None],
                      "model_generation")]

\* The return of _generate_3d_model into process, lines 94-96.
ModelReturn(l, model_data, model_path, video_path) ==
    [pc |-> "persist",
     loc |-> AddStage([l EXCEPT !.model_data = model_data,
                                !.model_path = model_path,
                                !.video_path = video_path,
                                !.work.model_path = model_path,
                                !.resp = None],
                      "model_generation")]

\* _generate_3d_model lines 239-247 and 255-256: the model file, then the
\* subscript response['video_object'].
ModelWrite(s) ==
    /\ pc[s] = "model_write"
    /\ \E ok \in BOOLEAN :
         LET l == loc[s]
             model_path == PathJoin("models", Uuid(l.call, "model"), ".glb")
         IN IF ~ok
            THEN /\ Logged(s, "model_write", "raise")
                 /\ UNCHANGED written
                 /\ Goto(s, ModelExcept(l, "OSError"))
            ELSE IF l.resp.video_object = Absent
            THEN /\ Logged(s, "model_write", "ok")
                 /\ Wrote(s, model_path, l.resp.generated_object)
                 /\ Goto(s, ModelExcept(l, "KeyError: 'video_object'"))
            ELSE IF Truthy(l.resp.video_object)
            THEN /\ Logged(s, "model_write", "ok")
                 /\ Wrote(s, model_path, l.resp.generated_object)
                 /\ Goto(s, [pc |-> "video_write", loc |-> l])
            ELSE /\ Logged(s, "model_write", "ok")
                 /\ Wrote(s, model_path, l.resp.generated_object)
                 /\ Goto(s, ModelReturn(l, l.resp.generated_object, model_path, None))
    /\ UNCHANGED <<request, pre, ledger, short_term_memory, clock, ncalls>>

\* _generate_3d_model lines 248-253: the video file, named after the same id.
VideoWrite(s) ==
    /\ pc[s] = "video_write"
    /\ \E ok \in BOOLEAN :
         LET l == loc[s]
             model_path == PathJoin("models", Uuid(l.call, "model"), ".glb")
             video_path == PathJoin("videos", Uuid(l.call, "model"), ".mp4")
         IN IF ok
            THEN /\ Logged(s, "video_write", "ok")
                 /\ Wrote(s, video_path, l.resp.video_object)
                 /\ Goto(s, ModelReturn(l, l.resp.generated_object, model_path,
                                        video_path))
            ELSE /\ Logged(s, "video_write", "raise")
                 /\ UNCHANGED written
                 /\ Goto(s, ModelExcept(l, "OSError"))
    /\ UNCHANGED <<request, pre, ledger, short_term_memory, clock, ncalls>>

\* _generate_3d_model2 (lines 286-310): the model bytes, or None when the call
\* raises, the response is empty or it holds no generated_object.
generate_3d_model2(reply) ==
    IF reply.kind = "raise" THEN None
    ELSE IF reply.kind = "empty" THEN None
    ELSE reply.generated_object

\* Lines 102-110: the fallback call and the test of what it returns.
FallbackCall(s) ==
    /\ pc[s] = "fallback_call"
    /\ Sent(s, ImageTo3dApp)
    /\ \E reply \in FallbackReplies :
         LET l == loc[s]
             model_data == generate_3d_model2(reply)
         IN IF Truthy(model_data)
            THEN /\ Logged(s, "fallback_call", "model")
                 /\ Goto(s, [pc |-> "fallback_write",
                             loc |-> [l EXCEPT !.model_data = model_data]])
            ELSE /\ Logged(s, "fallback_call", "none")
                 /\ Goto(s, [pc |-> "persist",
                             loc |-> [l EXCEPT !.model_data = model_data,
                                               !.model_path = None]])
    /\ UNCHANGED <<pre, ledger, short_term_memory, written, clock, ncalls>>

\* Lines 104-108: the file of the fallback model.  The write happens inside
\* the except clause of line 97, so a failure reaches the outer try.
FallbackWrite(s) ==
    /\ pc[s] = "fallback_write"
    /\ \E ok \in BOOLEAN :
         LET l == loc[s]
             model_path == PathJoin("models", Uuid(l.call, "fallback"), ".glb")
         IN IF ok
            THEN /\ Logged(s, "fallback_write", "ok")
                 /\ Wrote(s, model_path, l.model_data)
                 /\ Goto(s, [pc |-> "persist",
                             loc |-> AddStage([l EXCEPT !.model_path = model_path,
                                                        !.work.model_path = model_path],
                                              "model_generation_fallback")])
            ELSE /\ Logged(s, "fallback_write", "raise")
                 /\ UNCHANGED written
                 /\ Raise(s, "OSError")
    /\ UNCHANGED <<request, pre, ledger, short_term_memory, clock, ncalls>>

\* The positional arguments of the two save_creation calls, lines 119-137.
SaveArgs(l, tags) ==
    IF Truthy(l.video_path)
    THEN <<l.user_prompt, l.enhanced_prompt, l.image_path, l.model_path,
           l.video_path, tags, l.user_id>>
    ELSE <<l.user_prompt, l.enhanced_prompt, l.image_path, l.model_path,
           tags, l.user_id>>

\* Stage 4, lines 116-137: tag extraction and the ledger insert.  Reading
\* video_path at line 119 when no assignment to it has run is an
\* UnboundLocalError.
Persist(s) ==
    /\ pc[s] = "persist"
    /\ \E order \in SetOrders, insert_ok \in BOOLEAN, tick \in ClockTicks :
         LET l == loc[s]
             extracted == TagsOf[<<l.enhanced_prompt, order>>]
             stamp == clock + tick
             out == save_creation(ledger, SaveArgs(l, extracted), insert_ok, stamp)
         IN IF l.video_path = Unbound
            THEN /\ Logged(s, "video_path", "unbound")
                 /\ Raise(s, "UnboundLocalError")
                 /\ UNCHANGED <<ledger, clock>>
            ELSE IF out.exc # NoExc
            THEN /\ Logged(s, "save_creation", "raise")
                 /\ Raise(s, out.exc)
                 /\ UNCHANGED <<ledger, clock>>
            ELSE /\ Logged(s, "save_creation", IF insert_ok THEN "ok" ELSE "insert_failed")
                 /\ ledger' = out.rows
                 /\ clock' = stamp
                 /\ Goto(s, [pc |-> "cache1",
                             loc |-> [l EXCEPT !.tags = extracted,
                                               !.creation_id = out.creation_id]])
    /\ UNCHANGED <<request, pre, short_term_memory, written, ncalls>>

CachePcs == <<"cache1", "cache2", "cache3", "cache4">>

\* The value each of lines 140-143 stores
CacheValue(l, k) ==
    IF k = 1 THEN l.user_prompt
    ELSE IF k = 2 THEN l.enhanced_prompt
    ELSE IF k = 3 THEN l.image_path
    ELSE l.model_path

\* Lines 139-155: one save_to_short_term call; after the fourth, the return
\* of the success shape.
CacheSession(s) ==
    /\ \E k \in 1..Len(CachePcs) :
         /\ pc[s] = CachePcs[k]
         /\ LET l == loc[s]
                out == save_to_short_term(short_term_memory, CacheKeys[k],
                                          CacheValue(l, k))
            IN IF out.exc # NoExc
               THEN /\ short_term_memory' = short_term_memory
                    /\ Raise(s, out.exc)
               ELSE /\ short_term_memory' = out.stm
                    /\ IF k = Len(CachePcs)
                       THEN Return(s, SuccessResult(l))
                       ELSE Goto(s, [pc |-> CachePcs[k + 1], loc |-> l])
    /\ UNCHANGED <<log, request, pre, ledger, written, clock, ncalls>>

---------------------------------------------------------------------------
(* Specifications                                                          *)

Init ==
    /\ pc = [s \in Sessions |-> "idle"]
    /\ loc = [s \in Sessions |-> NoLocals]
    /\ result = [s \in Sessions |-> NoResult]
    /\ log = [s \in Sessions |-> <<>>]
    /\ request = [s \in Sessions |-> NoRequest]
    /\ pre = [s \in Sessions |-> [ledger |-> <<>>, stm |-> <<>>, last |-> NoResult]]
    /\ written = [s \in Sessions |-> {}]
    /\ ledger = <<>>
    /\ short_term_memory = <<>>
    /\ last = NoResult
    /\ clock = 0
    /\ ncalls = 0
    /\ answer = NoAnswer

Step(s) ==
    \/ Detect(s)
    \/ Enhance(s)
    \/ ImageCall(s)
    \/ ImageWrite(s)
    \/ ModelCall(s)
    \/ ModelWrite(s)
    \/ VideoWrite(s)
    \/ FallbackCall(s)
    \/ FallbackWrite(s)
    \/ Persist(s)
    \/ CacheSession(s)

\* Requests handled one at a time (spec section 5; main.py execute): one
\* caller, whose next call starts when its previous call has returned.
Callers == {"s1"}

Next ==
    \E s \in Callers :
        \/ \E p \in Prompts, u \in UserIds : Call(s, p, u)
        \/ Step(s)

Spec == Init /\ [][Next]_vars

---------------------------------------------------------------------------
(* Direct calls of the helpers, by a caller that is not inside process()   *)

AnswerFrame ==
    UNCHANGED <<pc, loc, result, log, request, pre, ledger, short_term_memory,
                written, last, clock, ncalls>>

\* The example of the tagging rule
PromptDragon ==
    <<"A", " ", "M", "a", "j", "e", "s", "t", "i", "c", " ", "D",
      "r", "a", "g", "o", "n", ",", " ", "G", "l", "o", "w", "i",
      "n", "g", " ", "S", "c", "a", "l", "e", "s", ",", " ", "G",
      "o", "l", "d", "e", "n", " ", "H", "o", "u", "r">>

\* Eleven distinct qualifying words
PromptEleven ==
    <<"b", "l", "u", "e", " ", "f", "i", "r", "e", " ", "g", "o",
      "l", "d", " ", "i", "r", "o", "n", " ", "j", "a", "d", "e",
      " ", "l", "a", "k", "e", " ", "m", "o", "o", "n", " ", "p",
      "i", "n", "e", " ", "r", "o", "s", "e", " ", "s", "n", "o",
      "w", " ", "w", "o", "l", "f">>

\* Repetitions in several cases, a four-letter stopword, three-letter words
PromptRepeats ==
    <<"G", "o", "l", "d", " ", "g", "o", "l", "d", " ", "G", "O",
      "L", "D", ",", "w", "i", "t", "h", " ", "t", "h", "e", " ",
      "T", "r", "e", "e", ",", "o", "a", "k", " ", "t", "r", "e", "e">>

PromptNoTags ==
    <<"A", "n", " ", "o", "w", "l", " ", "o", "n", " ", "a", " ",
      "l", "o", "g">>

TagPrompts == {PromptDragon, PromptEleven, PromptRepeats, PromptNoTags, <<>>}

\* The caller makes one direct call of a helper or of a query between two
\* requests, and one after an insert
Free(s) == Idle(s) /\ answer.fn \in {"none", "save_creation"}

\* self._extract_tags(prompt), called on its own
ExtractTags(s, prompt, order) ==
    /\ Free(s)
    /\ answer' = [fn |-> "extract_tags", prompt |-> prompt,
                  ret |-> extract_tags(prompt, order)]
    /\ AnswerFrame

\* Requests explored next to the direct calls of the tagger
MaxTagCalls == 1

TagNext ==
    \E s \in Callers :
        \/ \E p \in Prompts, u \in UserIds : ncalls < MaxTagCalls /\ Call(s, p, u)
        \/ Step(s)
        \/ \E p \in TagPrompts, o \in SetOrders : ExtractTags(s, p, o)

TagSpec == Init /\ [][TagNext]_vars

---------------------------------------------------------------------------
(* MemoryManager called directly: inserts and queries                      *)

\* Rows that may be in the table when the queries are made
MaxRows == 3

TextOwl == <<"O", "w", "l">>
TextPaleOwl == <<"P", "a", "l", "e", " ", "o", "w", "l">>
TextBigCat == <<"B", "i", "g", " ", "c", "a", "t">>
TextBoldCat == <<"B", "O", "L", "D", " ", "c", "a", "t">>
TextFox == <<"F", "o", "x">>
TextRedFox == <<"R", "e", "d", " ", "f", "o", "x">>
TagPale == <<"p", "a", "l", "e">>
TagBird == <<"b", "i", "r", "d">>
TagBold == <<"b", "o", "l", "d">>

\* The positional arguments of save_creation: prompt, enhanced_prompt,
\* image_path, model_path, tags, user_id
SaveInputs ==
    { <<TextOwl, TextPaleOwl, PathJoin("images", Uuid(0, "image"), ".png"), None,
        <<TagPale, TagBird>>, "super-user">>,
      <<TextBigCat, TextBoldCat, PathJoin("images", Uuid(0, "image"), ".png"),
        PathJoin("models", Uuid(0, "model"), ".glb"), <<TagBold>>, "alice">>,
      <<TextFox, TextRedFox, None, None, <<>>, "super-user">> }

\* Two inserts may read the same datetime.now()
InsertTicks == {0, 1}

SearchTerms == { <<"b", "i", "r", "d">>, <<"O", "W", "L">>, <<"p", "_", "l", "e">>, <<"x">> }

QueryUsers == {NoUserId, "super-user", "alice"}

Limits == {0, 1, 2}

SaveCreation(s, args, insert_ok, tick) ==
    /\ Idle(s)
    /\ Len(ledger) < MaxRows
    /\ LET out == save_creation(ledger, args, insert_ok, clock + tick)
       IN /\ ledger' = out.rows
          /\ answer' = [fn |-> "save_creation", ret |-> out.creation_id]
    /\ clock' = IF insert_ok THEN clock + tick ELSE clock
    /\ UNCHANGED <<pc, loc, result, log, request, pre, short_term_memory,
                   written, last, ncalls>>

SearchCreations(s, search_term, user_id, query_ok) ==
    /\ Free(s)
    /\ answer' = [fn |-> "search_creations", search_term |-> search_term,
                  user_id |-> user_id, ok |-> query_ok,
                  ret |-> search_creations(ledger, search_term, user_id, query_ok)]
    /\ AnswerFrame

GetRecentCreations(s, limit, user_id, tie, query_ok) ==
    /\ Free(s)
    /\ answer' = [fn |-> "get_recent_creations", limit |-> limit,
                  user_id |-> user_id, ok |-> query_ok,
                  ret |-> get_recent_creations(ledger, limit, user_id, tie, query_ok)]
    /\ AnswerFrame

GetAllCreations(s, limit, user_id, tie, query_ok) ==
    /\ Free(s)
    /\ answer' = [fn |-> "get_all_creations", limit |-> limit,
                  user_id |-> user_id, ok |-> query_ok,
                  ret |-> get_all_creations(ledger, limit, user_id, tie, query_ok)]
    /\ AnswerFrame

Query(s) ==
    \/ \E t \in SearchTerms, u \in QueryUsers, ok \in BOOLEAN :
           SearchCreations(s, t, u, ok)
    \/ \E n \in Limits, u \in QueryUsers, tie \in TieOrders, ok \in BOOLEAN :
           GetRecentCreations(s, n, u, tie, ok)
    \/ \E n \in Limits, u \in QueryUsers, tie \in TieOrders, ok \in BOOLEAN :
           GetAllCreations(s, n, u, tie, ok)

MemNext ==
    \E s \in Callers :
        \/ \E args \in SaveInputs, ok \in BOOLEAN, tick \in InsertTicks :
               SaveCreation(s, args, ok, tick)
        \/ Query(s)

MemSpec == Init /\ [][MemNext]_vars

---------------------------------------------------------------------------
(* main.py: the request handler                                            *)

\* execute (main.py lines 65-78) and executeInternal (lines 100-138): every
\* request builds a new MemoryManager on the same database file, so the
\* session cache starts empty and the table is the one left by the earlier
\* requests; then it builds a pipeline around it and calls
\* process(user_prompt, 'super-user').  The lookup of earlier creations
\* (lines 117-133) is made only for prompts that hold "like" and one of
\* "last", "previous", "before"; none of Prompts does.
Execute(s, user_prompt) ==
    /\ Idle(s)
    /\ ncalls < MaxCalls
    /\ ncalls' = ncalls + 1
    /\ short_term_memory' = <<>>
    /\ pc' = [pc EXCEPT ![s] = "detect"]
    /\ loc' = [loc EXCEPT ![s] = EntryLocals(ncalls + 1, user_prompt, "super-user")]
    /\ result' = [result EXCEPT ![s] = NoResult]
    /\ log' = [log EXCEPT ![s] = <<>>]
    /\ request' = [request EXCEPT ![s] = NoRequest]
    /\ written' = [written EXCEPT ![s] = {}]
    /\ pre' = [pre EXCEPT ![s] = [ledger |-> ledger, stm |-> <<>>, last |-> last]]
    /\ answer' = NoAnswer
    /\ UNCHANGED <<ledger, last, clock>>

ExecNext ==
    \E s \in Callers :
        \/ \E p \in Prompts : Execute(s, p)
        \/ Step(s)

ExecSpec == Init /\ [][ExecNext]_vars

---------------------------------------------------------------------------
(* The application: requests, and queries of the ledger between them       *)

\* Requests explored next to the queries
MaxAppCalls == 2

TextLowerOwl == <<"o", "w", "l">>

\* What the callers of the queries pass: main.py line 123 searches for one
\* word of the prompt with no user; gui.py load_history (lines 139-141) asks
\* for get_all_creations(limit=5) with no user.
AppQuery(s) ==
    \/ SearchCreations(s, TextLowerOwl, NoUserId, TRUE)
    \/ GetRecentCreations(s, 1, "super-user", "rowid_asc", TRUE)
    \/ GetAllCreations(s, 5, NoUserId, "rowid_desc", TRUE)

AppNext ==
    \E s \in Callers :
        \/ \E p \in Prompts, u \in UserIds : ncalls < MaxAppCalls /\ Call(s, p, u)
        \/ Step(s)
        \/ AppQuery(s)

AppSpec == Init /\ [][AppNext]_vars

---------------------------------------------------------------------------
(* OllamaLlama called directly                                             *)

PromptWithComma == <<"O", "w", "l", ",", " ", "f", "o", "x">>

\* The prompts handed to the enhancer, the empty one included
EnhancerPrompts == {PromptOwl, PromptFox, PromptWithComma, <<>>}

\* What the text backend may answer: as LlmReplies, and two more statuses
\* that are not 200
EnhancerReplies ==
    LlmReplies \cup {[kind |-> "http", status_code |-> c, response |-> None] : c \in {204, 404}}

\* llm_client.enhance_prompt(user_prompt) or
\* llm_client.enhance_prompt_local(user_prompt), with any outcome of the
\* three random.choice calls
EnhancePrompt(s, method, user_prompt, reply, draw) ==
    /\ Free(s)
    /\ LET out == IF method = "enhance_prompt"
                  THEN enhance_prompt(user_prompt, reply, draw)
                  ELSE enhance_prompt_local(user_prompt, reply, draw)
       IN answer' = [fn |-> method, user_prompt |-> user_prompt, reply |-> reply,
                     url |-> out.url, exc |-> out.exc, ret |-> out.value]
    /\ AnswerFrame

EnhancerNext ==
    \E s \in Callers :
        \E method \in {"enhance_prompt", "enhance_prompt_local"},
           p \in EnhancerPrompts, r \in EnhancerReplies, d \in AllDraws :
            EnhancePrompt(s, method, p, r, d)

EnhancerSpec == Init /\ [][EnhancerNext]_vars

---------------------------------------------------------------------------
(* Requests with different prompts                                         *)

\* Requests explored when the prompt varies
MaxPromptCalls == 2

PromptNext ==
    \E s \in Callers :
        \/ \E p \in Prompts \cup {PromptFox}, u \in UserIds :
               ncalls < MaxPromptCalls /\ Call(s, p, u)
        \/ Step(s)

PromptSpec == Init /\ [][PromptNext]_vars

---------------------------------------------------------------------------
(* The container detection called directly                                 *)

\* Requests explored next to the direct calls of the detection
MaxDetectCalls == 1

\* CreativePipeline.is_running_in_docker(), a static method, called on its
\* own on a host `env`
IsRunningInDocker(s, env) ==
    /\ Free(s)
    /\ answer' = [fn |-> "is_running_in_docker", env |-> env,
                  ret |-> is_running_in_docker(env)]
    /\ AnswerFrame

DetectNext ==
    \E s \in Callers :
        \/ \E p \in Prompts, u \in UserIds : ncalls < MaxDetectCalls /\ Call(s, p, u)
        \/ Step(s)
        \/ \E env \in HostEnvs : IsRunningInDocker(s, env)

DetectSpec == Init /\ [][DetectNext]_vars

---------------------------------------------------------------------------
(* Progress of a request                                                   *)

\* Every external call returns or raises in the end (the text backend, the
\* two generation services, the file writes, the insert), and the statements
\* between them run: a step of a call that is enabled is taken in the end.
LiveSpec == Init /\ [][Next]_vars /\ \A s \in Callers : WF_vars(Step(s))

---------------------------------------------------------------------------
(* Vocabulary of the properties                                            *)

Done(s) == pc[s] = "done"

\* The call of s performed operation `op` with outcome `outcome`
Has(s, op, outcome) == \E i \in 1..Len(log[s]) : log[s][i] = <<op, outcome>>

Did(s, op) == \E i \in 1..Len(log[s]) : log[s][i][1] = op

SuccessKeys == {"creation_id", "original_prompt", "enhanced_prompt",
                "image_path", "model_path", "tags"}
FailureKeys == {"error", "stage", "original_prompt"}

IsSuccessShape(r) == DOMAIN r = SuccessKeys

IsFailureShape(r) == DOMAIN r = FailureKeys /\ r.stage = "pipeline_process"

\* The image-generation call failed: it raised, or its response held no bytes
ImageCallFailed(s) ==
    Has(s, "image_call", "raise") \/ Has(s, "image_call", "no_data")

\* The primary 3D call failed: it raised, or answered without model bytes
PrimaryCallFailed(s) ==
    \/ Has(s, "model_call", "raise")
    \/ Has(s, "model_call", "empty")
    \/ Has(s, "model_call", "no_data")

\* The primary 3D attempt failed, at the call or after it
PrimaryFailed(s) ==
    \/ PrimaryCallFailed(s)
    \/ Has(s, "model_write", "raise")
    \/ Has(s, "video_write", "raise")
    \/ (Has(s, "model_call", "model") /\ Has(s, "model_write", "ok"))

\* A write of an artifact file failed in the call of s
WriteFault(s) ==
    \/ Has(s, "image_write", "raise")
    \/ Has(s, "model_write", "raise")
    \/ Has(s, "video_write", "raise")
    \/ Has(s, "fallback_write", "raise")

InsertFault(s) == Has(s, "save_creation", "insert_failed")

EnhanceFault(s) == Has(s, "enhance", "raise")

\* The call of s appended exactly the row `row` to the ledger it found
AppendedOne(s) ==
    /\ Len(ledger) = Len(pre[s].ledger) + 1
    /\ SubSeq(ledger, 1, Len(pre[s].ledger)) = pre[s].ledger

LastRow == ledger[Len(ledger)]

CacheHolds(r) ==
    /\ get_from_short_term(short_term_memory, "last_prompt") = r.original_prompt
    /\ get_from_short_term(short_term_memory, "last_enhanced_prompt") = r.enhanced_prompt
    /\ get_from_short_term(short_term_memory, "last_image_path") = r.image_path
    /\ get_from_short_term(short_term_memory, "last_model_path") = r.model_path

---------------------------------------------------------------------------
(* gui.py: two browser sessions on one pipeline                            *)

\* initialize_pipeline (gui.py lines 69-99) is cached with
\* st.cache_resource: every session of the Streamlit process gets the same
\* CreativePipeline and the same MemoryManager, and each session runs its
\* script in a thread of its own, so two process() calls may overlap.  Each
\* of the two users submits one request, which gui.py line 206 passes on as
\* process(prompt, 'super-user').
SessionPrompt == [s \in Sessions |-> IF s = "s1" THEN PromptOwl ELSE PromptFox]

Submit(s) ==
    /\ pc[s] = "idle"
    /\ \E u \in UserIds : Call(s, SessionPrompt[s], u)

\* The runs explored side by side are those in which the artifact store
\* takes every file
SharedStep(s) == Step(s) /\ ~WriteFault(s)'

SharedNext ==
    \E s \in Sessions :
        \/ Submit(s)
        \/ SharedStep(s)

SharedSpec == Init /\ [][SharedNext]_vars

---------------------------------------------------------------------------
(* Claims                                                                  *)

\* C1: whatever faults occur in the stages (enhancement, image generation,
\* 3D generation, fallback, artifact writes, ledger insert), a process call
\* that has ended has handed its caller the success shape or the failure
\* shape with stage 'pipeline_process'; no exception leaves process.
C1_ProcessNeverRaises ==
    \A s \in Sessions :
        Done(s) => IsSuccessShape(result[s]) \/ IsFailureShape(result[s])

\* A call that met several faults (the primary 3D attempt, then the write of
\* the fallback model) and ended in the failure shape.
C1_Witness ==
    \E s \in Sessions :
        /\ Done(s)
        /\ PrimaryFailed(s)
        /\ Has(s, "fallback_write", "raise")
        /\ IsFailureShape(result[s])
        /\ result[s].error = "OSError"

\* C2: when the image-generation call failed (it raised, or its response held
\* no image bytes), the returned result has image_path null and the 3D
\* capability was not invoked in that run, neither as primary attempt nor as
\* fallback.
C2_ImageFailureSkipsModel ==
    \A s \in Sessions :
        (Done(s) /\ ImageCallFailed(s)) =>
            /\ "image_path" \in DOMAIN result[s]
            /\ result[s].image_path = None
            /\ ~Did(s, "model_call")
            /\ ~Did(s, "fallback_call")

\* C3: a run whose only faults are failures of the image-generation call
\* does not end in the terminal-error path: it returns the success shape
\* with image_path null, having skipped 3D generation and written one
\* CreationRecord.
C3_ImageFailureNotTerminal ==
    \A s \in Sessions :
        (/\ Done(s)
         /\ ImageCallFailed(s)
         /\ ~EnhanceFault(s) /\ ~WriteFault(s) /\ ~InsertFault(s)) =>
            /\ IsSuccessShape(result[s])
            /\ result[s].image_path = None
            /\ ~Did(s, "model_call")
            /\ AppendedOne(s)

\* C4: when the primary 3D call failed and the fallback returned model bytes
\* (no other fault in the run), process wrote those bytes to a new model
\* file, the result's model_path is that path, and the result's
\* stages_completed marks the model stage as a fallback success.
C4_FallbackSuccessIsMarked ==
    \A s \in Sessions :
        (/\ Done(s)
         /\ PrimaryCallFailed(s)
         /\ Has(s, "fallback_call", "model")
         /\ ~WriteFault(s) /\ ~InsertFault(s)) =>
            /\ IsSuccessShape(result[s])
            /\ result[s].model_path # None
            /\ [path |-> result[s].model_path, data |-> GlbBytes2] \in written[s]
            /\ "stages_completed" \in DOMAIN result[s]
            /\ \E i \in 1..Len(result[s].stages_completed) :
                   result[s].stages_completed[i] = "model_generation_fallback"

\* C5: when image generation succeeded and both the primary and the fallback
\* 3D attempt failed (in a run whose ledger insert went through), the result
\* is the success shape with non-null image_path and null model_path, the
\* image file is still there, and exactly one CreationRecord, with that image
\* path and a null model path, was added to the ledger.
C5_BothModelAttemptsFail ==
    \A s \in Sessions :
        (/\ Done(s)
         /\ Has(s, "image_write", "ok")
         /\ PrimaryFailed(s)
         /\ Has(s, "fallback_call", "none")
         /\ ~InsertFault(s)) =>
            /\ IsSuccessShape(result[s])
            /\ result[s].image_path # None
            /\ result[s].model_path = None
            /\ \E f \in written[s] : f.path = result[s].image_path
            /\ AppendedOne(s)
            /\ LastRow.id = result[s].creation_id
            /\ LastRow.image_path = result[s].image_path
            /\ LastRow.model_path = None

\* Both 3D attempts failed after a model file had been written by the primary
\* attempt, and the run still persisted its record.
C5_Witness ==
    \E s \in Sessions :
        /\ Done(s)
        /\ Has(s, "image_write", "ok")
        /\ Has(s, "video_write", "raise")
        /\ Has(s, "fallback_call", "none")
        /\ ~InsertFault(s)
        /\ IsSuccessShape(result[s])
        /\ Len(pre[s].ledger) = 1

\* C6: two process calls made one after the other with the same prompt, both
\* reaching the ledger, each add their own CreationRecord; the two results
\* carry two distinct creation identifiers, and after the second call the four
\* SessionCache keys hold the values of the second call.
C6_NoDeduplication ==
    \A s \in Sessions :
        (/\ Done(s)
         /\ IsSuccessShape(result[s])
         /\ ~InsertFault(s)
         /\ IsSuccessShape(pre[s].last)
         /\ pre[s].last.creation_id # -1
         /\ pre[s].last.original_prompt = result[s].original_prompt) =>
            /\ result[s].creation_id # pre[s].last.creation_id
            /\ AppendedOne(s)
            /\ LastRow.id = result[s].creation_id
            /\ \E i \in 1..Len(pre[s].ledger) :
                   /\ ledger[i].id = pre[s].last.creation_id
                   /\ ledger[i].prompt = pre[s].last.original_prompt
            /\ CacheHolds(result[s])

\* The second of two successful calls with the same prompt has returned, and
\* its values differ from those of the first call.
C6_Witness ==
    \E s \in Sessions :
        /\ Done(s)
        /\ IsSuccessShape(result[s])
        /\ ~InsertFault(s)
        /\ IsSuccessShape(pre[s].last)
        /\ pre[s].last.creation_id # -1
        /\ pre[s].last.original_prompt = result[s].original_prompt
        /\ pre[s].last.enhanced_prompt # result[s].enhanced_prompt
        /\ pre[s].last.model_path # None
        /\ result[s].model_path = None

\* C7: for every outcome of the text-generation backend, an unreachable
\* backend included, the enhancement call returns non-empty text and raises
\* nothing, so that no run ends at the enhancement step.
C7_EnhancerAlwaysReturnsText ==
    \A s \in Sessions :
        /\ ~EnhanceFault(s)
        /\ (Has(s, "enhance", "ok") /\ ~Done(s)) => Truthy(loc[s].enhanced_prompt)

\* C8: whenever process returns the failure shape, the ledger holds exactly
\* the records it held before the call and the SessionCache is as it was
\* before the call.
C8_FailureLeavesMemoryUntouched ==
    \A s \in Sessions :
        (Done(s) /\ IsFailureShape(result[s])) =>
            /\ ledger = pre[s].ledger
            /\ short_term_memory = pre[s].stm

\* A call that failed late (at the write of the fallback model) on a ledger
\* and a cache that an earlier call had filled.
C8_Witness ==
    \E s \in Sessions :
        /\ Done(s)
        /\ IsFailureShape(result[s])
        /\ Has(s, "fallback_write", "raise")
        /\ pre[s].ledger # <<>>
        /\ DOMAIN pre[s].stm # {}

\* C9: when the primary 3D response carries model bytes and a non-empty video
\* (no fault in the run), process writes the model file and the video file,
\* persists one CreationRecord whose video path is the written video file, and
\* returns the success shape.
C9_VideoIsPersisted ==
    \A s \in Sessions :
        (/\ Done(s)
         /\ Has(s, "model_call", "model+video")
         /\ ~WriteFault(s) /\ ~InsertFault(s)) =>
            /\ IsSuccessShape(result[s])
            /\ \E f \in written[s] : f.path = result[s].model_path
            /\ AppendedOne(s)
            /\ \E f \in written[s] : f.path = LastRow.video_path /\ f.data = Mp4Bytes

\* C10: a failure of the ledger insert is fatal to the run: process returns
\* the failure shape, no record exists for the run and the SessionCache is
\* not updated.
C10_InsertFailureIsFatal ==
    \A s \in Sessions :
        (Done(s) /\ InsertFault(s)) =>
            /\ IsFailureShape(result[s])
            /\ ledger = pre[s].ledger
            /\ short_term_memory = pre[s].stm

\* C11: when image generation or 3D generation failed in a run that was not
\* aborted (it returned the success shape), the result handed to the caller
\* has an errors list, and the list holds an entry for that failure.
C11_ResultCarriesErrors ==
    \A s \in Sessions :
        (/\ Done(s)
         /\ IsSuccessShape(result[s])
         /\ ImageCallFailed(s) \/ PrimaryFailed(s)) =>
            /\ "errors" \in DOMAIN result[s]
            /\ result[s].errors # <<>>

\* The qualifying words of a prompt, as the tagging rule states them: the
\* lower-cased words between commas and blanks that are longer than three
\* characters and are no stopword.
QualifyingWords(prompt) ==
    LET words == Split(ReplaceComma(Lower(prompt)))
    IN {words[i] : i \in {j \in 1..Len(words) :
                            Len(words[j]) > 3 /\ words[j] \notin stopwords}}

Min(a, b) == IF a < b THEN a ELSE b

DragonTags ==
    { <<"m", "a", "j", "e", "s", "t", "i", "c">>, <<"d", "r", "a", "g", "o", "n">>,
      <<"g", "l", "o", "w", "i", "n", "g">>, <<"s", "c", "a", "l", "e", "s">>,
      <<"g", "o", "l", "d", "e", "n">>, <<"h", "o", "u", "r">> }

\* C12: _extract_tags returns a duplicate-free list of exactly min(10, n)
\* tags, n the number of distinct qualifying words of the prompt, each tag a
\* qualifying word; for the dragon prompt the tags are the six words of the
\* example; and the tags that process stores and returns are those of the
\* enhanced prompt.
C12_TagsOfEnhancedPrompt ==
    /\ answer.fn = "extract_tags" =>
        LET tags == answer.ret
            words == QualifyingWords(answer.prompt)
        IN /\ \A i, j \in 1..Len(tags) : tags[i] = tags[j] => i = j
           /\ Len(tags) = Min(10, Cardinality(words))
           /\ \A i \in 1..Len(tags) : tags[i] \in words
           /\ answer.prompt = PromptDragon =>
                  {tags[i] : i \in 1..Len(tags)} = DragonTags
    /\ \A s \in Sessions :
        (Done(s) /\ IsSuccessShape(result[s])) =>
            /\ \E o \in SetOrders :
                   result[s].tags = extract_tags(result[s].enhanced_prompt, o)
            /\ ~InsertFault(s) => LastRow.tags = Join(<<",">>, result[s].tags)

\* The tagger has cut eleven distinct words down to ten, after a run whose
\* tags are those of the enhanced prompt and not those of the original one.
C12_Witness ==
    /\ answer.fn = "extract_tags"
    /\ answer.prompt = PromptEleven
    /\ Len(answer.ret) = 10
    /\ \E s \in Sessions :
        /\ Done(s)
        /\ IsSuccessShape(result[s])
        /\ result[s].tags # <<>>
        /\ \A o \in SetOrders :
               result[s].tags # extract_tags(result[s].original_prompt, o)

\* term occurs in text as a substring, letters compared without case
Occurs(term, text) ==
    \E i \in 0..(Len(text) - Len(term)) :
        Lower(SubSeq(text, i + 1, i + Len(term))) = Lower(term)

RowIds(rows) == {rows[i].id : i \in 1..Len(rows)}

\* C13: search_creations(term, user_id) returns exactly the ledger records in
\* which term occurs as a case-insensitive substring of the prompt, of the
\* enhanced prompt or of the stored tags string, restricted to the records
\* of user_id when one is given.
C13_SearchIsSubstringMatch ==
    (answer.fn = "search_creations" /\ answer.ok) =>
        /\ \A i \in 1..Len(answer.ret) :
               \E j \in 1..Len(ledger) : ledger[j] = answer.ret[i]
        /\ RowIds(answer.ret) =
               {ledger[j].id : j \in {k \in 1..Len(ledger) :
                   /\ \/ Occurs(answer.search_term, ledger[k].prompt)
                      \/ Occurs(answer.search_term, ledger[k].enhanced_prompt)
                      \/ Occurs(answer.search_term, ledger[k].tags)
                   /\ UserGiven(answer.user_id) =>
                          ledger[k].user_id = answer.user_id}}

\* C14: the SessionCache lasts for the process and not for one request: when
\* a request handled after a successful run has failed, reading the four
\* keys still returns the values of that successful run.
C14_CacheOutlivesRequests ==
    \A s \in Sessions :
        (/\ Done(s)
         /\ IsFailureShape(result[s])
         /\ IsSuccessShape(pre[s].last)) => CacheHolds(pre[s].last)

\* C15: after every process call that returned the success shape, the
\* SessionCache keys last_prompt, last_enhanced_prompt, last_image_path and
\* last_model_path equal the result's original_prompt, enhanced_prompt,
\* image_path and model_path, a null path included.
C15_CacheMirrorsResult ==
    \A s \in Sessions :
        (Done(s) /\ IsSuccessShape(result[s])) =>
            /\ DOMAIN short_term_memory = {CacheKeys[i] : i \in 1..Len(CacheKeys)}
            /\ short_term_memory["last_prompt"] = result[s].original_prompt
            /\ short_term_memory["last_enhanced_prompt"] = result[s].enhanced_prompt
            /\ short_term_memory["last_image_path"] = result[s].image_path
            /\ short_term_memory["last_model_path"] = result[s].model_path

\* The null model path of a run has replaced the model path that an earlier
\* run left in the cache.
C15_Witness ==
    \E s \in Sessions :
        /\ Done(s)
        /\ IsSuccessShape(result[s])
        /\ result[s].model_path = None
        /\ "last_model_path" \in DOMAIN pre[s].stm
        /\ pre[s].stm["last_model_path"] # None
        /\ short_term_memory["last_model_path"] = None

\* The call of s got as far as the persistence stage (generator.py line 116)
ReachedPersistence(s) == Did(s, "save_creation") \/ Did(s, "video_path")

\* C16: the ledger is append-only: a process invocation adds at most one
\* CreationRecord, and exactly one when it reaches the persistence stage
\* (and the insert does not fail); neither process nor a query changes or
\* removes a record; the identifiers are unique and strictly increasing in
\* insertion order.
C16_LedgerAppendOnly ==
    /\ \A i, j \in 1..Len(ledger) : i < j => ledger[i].id < ledger[j].id
    /\ \A s \in Callers :
        /\ Len(pre[s].ledger) <= Len(ledger)
        /\ SubSeq(ledger, 1, Len(pre[s].ledger)) = pre[s].ledger
        /\ Len(ledger) <= Len(pre[s].ledger) + 1
        /\ (Done(s) /\ ReachedPersistence(s) /\ ~InsertFault(s)) => AppendedOne(s)

\* The record r carries the values of the result res
ProjectionOf(res, r) ==
    /\ r.id = res.creation_id
    /\ r.prompt = res.original_prompt
    /\ r.enhanced_prompt = res.enhanced_prompt
    /\ r.image_path = res.image_path
    /\ r.model_path = res.model_path
    /\ r.tags = Join(<<",">>, res.tags)

\* C17: every success-shape result is the projection of a CreationRecord:
\* its creation_id is the identifier of a record present in the ledger, and
\* that record's prompt, enhanced prompt, image path, model path and tags are
\* those of the result.
C17_ResultProjectsRecord ==
    \A s \in Sessions :
        (Done(s) /\ IsSuccessShape(result[s])) =>
            \E i \in 1..Len(ledger) : ProjectionOf(result[s], ledger[i])

\* The rows of the ledger that a query for user_id ranges over
RowsOf(user_id) ==
    {ledger[i] : i \in {j \in 1..Len(ledger) :
                          UserGiven(user_id) => ledger[j].user_id = user_id}}

\* C18: get_recent_creations(limit, user_id) returns at most limit records,
\* as many as there are when fewer than limit exist; they are records of the
\* ledger (of user_id when one is given), no record of the ledger left out
\* has a later timestamp than a returned one, and they are ordered by
\* timestamp descending.
C18_RecentIsLatestFirst ==
    (answer.fn = "get_recent_creations" /\ answer.ok) =>
        LET ret == answer.ret
            mine == RowsOf(answer.user_id)
            got == {ret[i] : i \in 1..Len(ret)}
        IN /\ Len(ret) <= answer.limit
           /\ Len(ret) = Min(answer.limit, Cardinality(mine))
           /\ Cardinality(got) = Len(ret)
           /\ got \subseteq mine
           /\ \A r \in got, m \in mine \ got : m.creation_date <= r.creation_date
           /\ \A i, j \in 1..Len(ret) :
                  i < j => ret[i].creation_date >= ret[j].creation_date

\* Two of the three records of a user were returned, the later one first,
\* and the oldest was left out; the table holds another user's record too.
C18_Witness ==
    /\ answer.fn = "get_recent_creations"
    /\ answer.ok
    /\ answer.limit = 2
    /\ answer.user_id = "super-user"
    /\ Len(answer.ret) = 2
    /\ answer.ret[1].creation_date > answer.ret[2].creation_date
    /\ Len(ledger) = 3
    /\ \E m \in RowsOf("super-user") :
           m.creation_date <= answer.ret[2].creation_date /\ m # answer.ret[2]

\* The stages of process in program order
StageOrder ==
    <<"detect", "enhance", "image_call", "image_write", "model_call", "model_write",
      "video_write", "fallback_call", "fallback_write", "persist",
      "cache1", "cache2", "cache3", "cache4", "done">>

StageNo(p) == CHOOSE i \in 1..Len(StageOrder) : StageOrder[i] = p

Running(s) == pc[s] \notin {"idle", "done"}

\* C19: when every external call returns or raises in the end, every process
\* invocation reaches its return, with the success shape or the failure
\* shape; and inside an invocation every step moves to a later stage, so that
\* no stage is entered twice and nothing is retried.
C19_ProcessTerminates ==
    /\ \A s \in Callers :
           Running(s) ~>
               (Done(s) /\ (IsSuccessShape(result[s]) \/ IsFailureShape(result[s])))
    /\ [][\A s \in Callers :
              (Running(s) /\ pc'[s] # pc[s]) => StageNo(pc'[s]) > StageNo(pc[s])]_vars

\* A call that went through both 3D attempts and all four cache writes has
\* returned.
C19_Witness ==
    \E s \in Callers :
        /\ Done(s)
        /\ Has(s, "video_write", "raise")
        /\ Has(s, "fallback_write", "ok")
        /\ IsSuccessShape(result[s])
        /\ ncalls = 2

\* The model-only branch was taken in the call of s: the primary stage
\* counted as succeeded, the model file of the primary response is the
\* result's model_path, no video file was written, no fallback was issued.
ModelOnlyBranch(s) ==
    /\ ~Did(s, "fallback_call")
    /\ ~Did(s, "video_write")
    /\ IsSuccessShape(result[s])
    /\ \E f \in written[s] : f.path = result[s].model_path /\ f.data = GlbBytes
    /\ \A f \in written[s] : f.data # Mp4Bytes

\* C20: when the primary 3D response carries model bytes and no video field,
\* or an empty one, the run takes the model-only branch.
C20_ModelOnlyBranch ==
    \A s \in Sessions :
        (/\ Done(s)
         /\ Has(s, "model_call", "model") \/ Has(s, "model_call", "model+empty_video")
         /\ Has(s, "model_write", "ok")
         /\ ~InsertFault(s)) => ModelOnlyBranch(s)

\* How many times the call of s performed operation `op`
Count(s, op) == Cardinality({i \in 1..Len(log[s]) : log[s][i][1] = op})

\* Where in the call of s operation `op` was performed first
FirstAt(s, op) == CHOOSE i \in 1..Len(log[s]) :
                      /\ log[s][i][1] = op
                      /\ \A j \in 1..(i - 1) : log[s][j][1] # op

\* The primary 3D attempt returned its model to process (line 94)
PrimarySucceeded(s) ==
    \/ (Has(s, "model_call", "model+empty_video") /\ Has(s, "model_write", "ok"))
    \/ Has(s, "video_write", "ok")

\* What ended the primary 3D attempt of the call of s with an exception
PrimaryFailureAt(s) ==
    {i \in 1..Len(log[s]) :
        \/ log[s][i] \in {<<"model_call", "raise">>, <<"model_call", "empty">>,
                          <<"model_call", "no_data">>, <<"model_write", "raise">>,
                          <<"video_write", "raise">>}
        \/ (log[s][i] = <<"model_write", "ok">> /\ Has(s, "model_call", "model"))}

StageOf(op) ==
    IF op = "enhance" THEN 1
    ELSE IF op \in {"image_call", "image_write"} THEN 2
    ELSE IF op \in {"model_call", "model_write", "video_write",
                    "fallback_call", "fallback_write"} THEN 3
    ELSE 4

GenerationCalls == {"image_call", "model_call", "fallback_call"}

\* The operations of the call of s up to now are in the order of the stages
LogInStageOrder(s) ==
    LET lg == log[s]
    IN /\ \A i, j \in 1..Len(lg) : i < j => StageOf(lg[i][1]) <= StageOf(lg[j][1])
       /\ \A i \in 1..Len(lg) :
             /\ lg[i][1] = "image_call" =>
                   \E j \in 1..(i - 1) : lg[j] = <<"enhance", "ok">>
             /\ lg[i][1] \in {"model_call", "fallback_call"} =>
                   \E j \in 1..(i - 1) : lg[j] = <<"image_write", "ok">>
             /\ lg[i][1] = "save_creation" =>
                   \A j \in 1..Len(lg) : lg[j][1] \in GenerationCalls => j < i

\* The insert of the call of s has returned
InsertReturned(s) ==
    Has(s, "save_creation", "ok") \/ Has(s, "save_creation", "insert_failed")

\* A step that writes the session cache is a step of a call whose insert has
\* returned; a step that inserts or makes a generation call is a step of a
\* call that has written nothing to the cache yet.
CacheWritesComeLast ==
    /\ short_term_memory' # short_term_memory =>
          \E s \in Sessions : pc[s] \in {CachePcs[k] : k \in 1..Len(CachePcs)}
                              /\ InsertReturned(s) /\ log'[s] = log[s]
    /\ \A s \in Sessions :
          (log'[s] # log[s] /\ log'[s] # <<>>) =>
              /\ short_term_memory' = short_term_memory
              /\ pc[s] \notin {CachePcs[k] : k \in 1..Len(CachePcs)}

\* C22: in every run the stages take effect in the order EnhancePrompt,
\* GenerateImage, GenerateModel (with its fallback), ExtractTags, Persist,
\* CacheSession: the image call comes after the enhancement has returned, no
\* 3D call comes before the image file is written, the ledger insert comes
\* after every generation call of the run, and the session cache is written
\* only after the insert has returned.
C22_StagesInOrder ==
    /\ [](\A s \in Sessions : LogInStageOrder(s))
    /\ [][CacheWritesComeLast]_vars

\* A run that went through every stage: enhancement, image, failed primary 3D
\* call, fallback model, insert, and the four cache writes
C22_Witness ==
    \E s \in Sessions :
        /\ Done(s)
        /\ IsSuccessShape(result[s])
        /\ Has(s, "enhance", "ok")
        /\ Has(s, "image_write", "ok")
        /\ Has(s, "model_call", "no_data")
        /\ Has(s, "fallback_write", "ok")
        /\ Has(s, "save_creation", "ok")
        /\ CacheHolds(result[s])

\* Where in the call of s a write of an artifact file failed
WriteFaultAt(s) ==
    {i \in 1..Len(log[s]) :
        log[s][i] \in {<<"image_write", "raise">>, <<"model_write", "raise">>,
                       <<"video_write", "raise">>, <<"fallback_write", "raise">>}}

\* The run of s was aborted where the write failed: no generation call after it
AbortedAtWriteFault(s) ==
    \A i \in WriteFaultAt(s) :
        \A j \in (i + 1)..Len(log[s]) : log[s][j][1] \notin GenerationCalls

\* C23: a run in which the write of an artifact file (image, model or video)
\* failed is aborted at that point: it returns the failure shape with stage
\* 'pipeline_process', it adds no row to the ledger, and it makes no
\* generation call after the failed write.
C23_WriteFaultAborts ==
    \A s \in Sessions :
        WriteFault(s) =>
            /\ AbortedAtWriteFault(s)
            /\ Done(s) => /\ IsFailureShape(result[s])
                          /\ ledger = pre[s].ledger

\* What a session reads from the cache: get_from_short_term on the four keys
CacheRead(stm) ==
    [k \in {CacheKeys[i] : i \in 1..Len(CacheKeys)} |-> get_from_short_term(stm, k)]

\* The step is a step of the process call of s
StepOf(s) == pc[s] \notin {"idle", "done"} /\ pc'[s] # pc[s]

\* C24: the session cache is kept per session or user: a step of the run of
\* one user leaves unchanged the last_prompt, last_enhanced_prompt,
\* last_image_path and last_model_path that another user, whose own run has
\* returned the success shape, reads.
C24_CachePerUser ==
    [][\A s, t \in Sessions :
          (s # t /\ StepOf(s) /\ Done(t) /\ IsSuccessShape(result[t])) =>
              CacheRead(short_term_memory') = CacheRead(short_term_memory)]_vars

\* The elements of a list
Elements(xs) == {xs[i] : i \in 1..Len(xs)}

\* The latest direct call was a call of the enhancer
EnhancerAnswered == answer.fn \in {"enhance_prompt", "enhance_prompt_local"}

\* C25: when the text backend answers with a status other than 200, the
\* enhancer returns the local enhancement: the original prompt as it is, then
\* one art style, one lighting descriptor and one detail descriptor, each
\* from its fixed list, then 'masterfully crafted' and '8k resolution', all
\* joined with ', ' in that order.
C25_LocalEnhancement ==
    (EnhancerAnswered /\ answer.reply.kind = "http" /\ answer.reply.status_code # 200) =>
        /\ answer.exc = NoExc
        /\ \E style \in Elements(art_styles), light \in Elements(lighting),
              detail \in Elements(details) :
               answer.ret = answer.user_prompt \o CommaSpace \o style \o CommaSpace
                            \o light \o CommaSpace \o detail \o CommaSpace
                            \o CraftedText \o CommaSpace \o ResolutionText

\* The backend answered 404 to the container endpoint and the enhancer
\* returned "Red Fox, cinematic, moody shadows, vibrant colors, masterfully
\* crafted, 8k resolution"
C25_Witness ==
    /\ answer.fn = "enhance_prompt"
    /\ answer.reply.kind = "http"
    /\ answer.reply.status_code = 404
    /\ answer.ret = PromptFox \o CommaSpace \o art_styles[1] \o CommaSpace
                    \o lighting[4] \o CommaSpace \o details[4] \o CommaSpace
                    \o CraftedText \o CommaSpace \o ResolutionText

\* The call of s is past its enhancement step
PastEnhance(s) == pc[s] \notin {"idle", "detect", "enhance"}

\* The step evaluates the container detection for the call of s
Detects(s) == pc[s] = "detect" /\ pc'[s] # "detect"

\* The step is the enhancement step of the call of s
Enhances(s) == pc[s] = "enhance" /\ pc'[s] # "enhance"

\* C26: each process invocation evaluates the container detection once and
\* makes exactly one enhancement call, to the container endpoint
\* (enhance_prompt) when the detection reported a container and to the local
\* endpoint (enhance_prompt_local) otherwise: never both, never neither, and
\* whatever the prompt of the request is.
C26_OneEnhancementCall ==
    /\ [](\A s \in Sessions :
             /\ Count(s, "enhance") <= 1
             /\ PastEnhance(s) => Count(s, "enhance") = 1)
    /\ [][\A s \in Sessions :
             /\ Detects(s) => /\ pc'[s] = "enhance"
                              /\ loc'[s].resp \in BOOLEAN
                              /\ log'[s] = log[s]
                              /\ request'[s] = NoRequest
             /\ pc'[s] = "detect" => (pc[s] = "detect" \/ Idle(s))
             /\ Enhances(s) =>
                   /\ request'[s] = IF loc[s].resp THEN ContainerUrl ELSE LocalUrl
                   /\ \E outcome \in {"ok", "raise"} :
                          log'[s] = Append(log[s], <<"enhance", outcome>>)]_vars

\* The second request of the caller, for the prompt 'Red Fox', found the host
\* in a container and posted to the container endpoint; the first request has
\* returned
C26_Witness ==
    \E s \in Sessions :
        /\ pc[s] = "image_call"
        /\ loc[s].call = 2
        /\ loc[s].user_prompt = PromptFox
        /\ request[s] = ContainerUrl
        /\ log[s] = << <<"enhance", "ok">> >>

\* A record or result that names a model names the image it was made from
ModelHasImage(r) == Truthy(r.model_path) => Truthy(r.image_path)

\* C27: after any sequence of runs and stage failures, every CreationRecord
\* that process has written and every success-shape result has a non-null
\* image path whenever its model path is non-null.
C27_ModelImpliesImage ==
    /\ \A i \in 1..Len(ledger) : ModelHasImage(ledger[i])
    /\ \A s \in Sessions :
           (Done(s) /\ IsSuccessShape(result[s])) => ModelHasImage(result[s])
    /\ IsSuccessShape(last) => ModelHasImage(last)

\* Two runs have written their records; the first has no model (both 3D
\* attempts failed), the second has the model of the fallback and its image
C27_Witness ==
    \E s \in Sessions :
        /\ Done(s)
        /\ IsSuccessShape(result[s])
        /\ Truthy(result[s].model_path)
        /\ Truthy(result[s].image_path)
        /\ Len(ledger) = 2
        /\ ~Truthy(ledger[1].model_path)
        /\ Truthy(ledger[2].model_path)
        /\ Truthy(ledger[2].image_path)
        /\ PrimaryCallFailed(s)

\* The image and model files the call of s has written (the videos aside)
FilesWritten(s, sub) == {f.path : f \in {g \in written[s] : g.path[2] = sub}}

\* C28: no artifact is orphaned: a run that has written an image or model file
\* ends in the success shape, and the image_path and model_path it returns
\* are the files it wrote; it returns no other model_path, and no null
\* model_path, when it wrote a model file.
C28_NoOrphanArtifact ==
    \A s \in Sessions :
        (Done(s) /\ written[s] # {}) =>
            /\ IsSuccessShape(result[s])
            /\ FilesWritten(s, "images") \subseteq {result[s].image_path}
            /\ FilesWritten(s, "models") \subseteq {result[s].model_path}

\* No process call is in progress on the MemoryManager
NoCallInProgress == \A s \in Sessions : Idle(s)

\* The four keys are all unset
CacheUnset == DOMAIN short_term_memory = {}

\* The four keys hold what the run of s, which returned the success shape,
\* wrote at lines 140-143
CacheWrittenBy(s) ==
    /\ Done(s)
    /\ IsSuccessShape(result[s])
    /\ DOMAIN short_term_memory = {CacheKeys[i] : i \in 1..Len(CacheKeys)}
    /\ CacheHolds(result[s])

\* C29: the session cache is coherent: whenever no process call is in
\* progress on the MemoryManager, the four last_* keys are all unset or were
\* all written by one and the same run, also when two process calls on that
\* MemoryManager overlap and their cache writes interleave.
C29_CacheCoherent ==
    NoCallInProgress => (CacheUnset \/ \E s \in Sessions : CacheWrittenBy(s))

\* C30: is_running_in_docker returns True exactly when /.dockerenv exists, or
\* /proc/1/cgroup is a file whose content contains 'docker' or contains
\* 'containerd', and False otherwise; it changes nothing.
C30_ContainerDetection ==
    answer.fn = "is_running_in_docker" =>
        (answer.ret <=>
            \/ answer.env.dockerenv
            \/ /\ answer.env.cgroup_isfile
               /\ ("docker" \in answer.env.cgroup \/ "containerd" \in answer.env.cgroup))

===========================================================================
